---- MODULE Spec2Model ----
(***************************************************************************)
(* kv-assets: the asset index (logical path -> AssetMetadata), its bincode *)
(* form, the resolver KVAssets (lazy decode in a RefCell, lookup_key,      *)
(* get_asset), the Workers-KV client KV (get_kv_value, put_kv_value) and    *)
(* the build side sync_assets (make_index, write_index, upload, prune).    *)
(*                                                                         *)
(* Strings are sequences of byte codes, byte strings are sequences over    *)
(* 0..255, u64 values are written as 8 little-endian bytes.               *)
(***************************************************************************)
EXTENDS Integers, Sequences, FiniteSets, TLC

(***************************************************************************)
(* Bounds of the model.                                                    *)
(***************************************************************************)
\* number of interleaved lookup_key / get_asset executions on one resolver
NumTasks == 2
\* longest request path handed to lookup_key / get_asset
MaxPathLen == 3

\* '/' as matched by strip_prefix('/')
Slash == 47
\* the bytes request paths are made of: '/' and 'b'
Chars == {Slash, 98}

Paths == UNION {[1..n -> Chars] : n \in 0..MaxPathLen}

(***************************************************************************)
(* Result<T, Error> and Option<T>.                                         *)
(***************************************************************************)
Ok(v) == [ok |-> TRUE, val |-> v]
Err(e) == [ok |-> FALSE, val |-> e]
None == <<"None">>
Some(v) == <<"Some", v>>
Unit == <<"()">>

\* crate::Error variants (the String payloads that only carry a message are
\* dropped, except the fixed prefix of Error::IO messages)
EmptyKey == <<"EmptyKey">>
DeserializeAssets == <<"DeserializeAssets">>
KVKeyNotFound(key, status) == <<"KVKeyNotFound", key, status>>
KVHttp == <<"KVHttp">>
KVHttpStatus(status) == <<"KVHttpStatus", status>>
TTLTooShort == <<"TTLTooShort">>
Message == <<"Message">>
IO(what) == <<"IO", what>>
Wrangler == <<"Wrangler">>

(***************************************************************************)
(* AssetMetadata and AssetIndex.  An index is a function from its keys to  *)
(* metadata records [path, modified, size].                                *)
(***************************************************************************)
AssetMetadata(p, m, s) == [path |-> p, modified |-> m, size |-> s]

EmptyIndex == [k \in {} |-> AssetMetadata(<<>>, 0, 0)]

\* HashMap::insert: a later insert under the same key replaces the entry
insert(index, k, md) ==
    [x \in (DOMAIN index) \cup {k} |-> IF x = k THEN md ELSE index[x]]

\* HashMap::get(..).cloned()
get(index, k) == IF k \in DOMAIN index THEN Some(index[k]) ELSE None

(***************************************************************************)
(* bincode (fixed-width little-endian integers, u64 length prefixes, no    *)
(* size limit, trailing bytes allowed).                                    *)
(***************************************************************************)
\* a u64 on the wire (the model's values stay below 2^31)
U64(n) ==
    << n % 256, (n \div 256) % 256, (n \div 65536) % 256,
       (n \div 16777216) % 256, 0, 0, 0, 0 >>

\* a String on the wire: byte length, then the UTF-8 bytes
Str(s) == U64(Len(s)) \o s

\* the orders in which a HashMap with key set S can be iterated (the order
\* depends on the per-process RandomState seed)
Orders(S) ==
    {o \in [1..Cardinality(S) -> S] : \A k \in S : \E i \in DOMAIN o : o[i] = k}

RECURSIVE serialize_entries(_, _)
serialize_entries(index, order) ==
    IF order = <<>> THEN <<>>
    ELSE LET k == Head(order) IN
         Str(k) \o Str(index[k].path) \o U64(index[k].modified)
                \o U64(index[k].size)
                \o serialize_entries(index, Tail(order))

\* bincode::serialize(&index), the map being iterated in `order`
serialize(index, order) == U64(Len(order)) \o serialize_entries(index, order)

\* reads a u64 at 1-based position pos; fails at end of input.  `big` says
\* the value is 2^31 or more: as a length it then runs past any input of the
\* model, and the model's inputs hold no such modified or size field
ReadU64(bs, pos) ==
    IF pos + 7 > Len(bs) THEN [ok |-> FALSE, val |-> 0, big |-> FALSE, pos |-> pos]
    ELSE [ok |-> TRUE,
          val |-> bs[pos] + 256 * bs[pos + 1] + 65536 * bs[pos + 2]
                    + 16777216 * (bs[pos + 3] % 128),
          big |-> \E i \in 3..7 : bs[pos + i] # 0 /\ (i > 3 \/ bs[pos + i] >= 128),
          pos |-> pos + 8]

\* reads a String: a length that runs past the input or bytes that are not
\* UTF-8 fail (the model's inputs are ASCII or the invalid byte 255)
ReadBytes(bs, n) ==
    IF ~n.ok \/ n.big \/ n.pos + n.val - 1 > Len(bs)
    THEN [ok |-> FALSE, val |-> <<>>, pos |-> n.pos]
    ELSE IF \E i \in n.pos..(n.pos + n.val - 1) : bs[i] >= 128
    THEN [ok |-> FALSE, val |-> <<>>, pos |-> n.pos]
    ELSE [ok |-> TRUE, val |-> SubSeq(bs, n.pos, n.pos + n.val - 1),
          pos |-> n.pos + n.val]
ReadString(bs, pos) == ReadBytes(bs, ReadU64(bs, pos))

\* reads one (key, AssetMetadata) entry: key, path, modified, size
EntryOf(k, p, m, s) ==
    [ok |-> k.ok /\ p.ok /\ m.ok /\ s.ok, key |-> k.val,
     md |-> AssetMetadata(p.val, m.val, s.val), pos |-> s.pos]
ReadSize(bs, k, p, m) == EntryOf(k, p, m, ReadU64(bs, m.pos))
ReadModified(bs, k, p) == ReadSize(bs, k, p, ReadU64(bs, p.pos))
ReadPath(bs, k) == ReadModified(bs, k, ReadString(bs, k.pos))
ReadEntry(bs, pos) == ReadPath(bs, ReadString(bs, pos))

ReadInto(bs, index, e) ==
    [ok |-> e.ok, val |-> IF e.ok THEN insert(index, e.key, e.md) ELSE index,
     pos |-> e.pos]

\* reads n entries into the map; a failed read fails the whole decode
RECURSIVE ReadEntries(_, _, _)
ReadEntries(bs, n, acc) ==
    IF ~acc.ok THEN Err(DeserializeAssets)
    ELSE IF n = 0 THEN Ok(acc.val)
    ELSE ReadEntries(bs, n - 1, ReadInto(bs, acc.val, ReadEntry(bs, acc.pos)))

\* bincode::deserialize::<AssetIndex>(bytes).map_err(DeserializeAssets)
ReadMap(bs, n) ==
    IF ~n.ok \/ n.big THEN Err(DeserializeAssets)
    ELSE ReadEntries(bs, n.val, [ok |-> TRUE, val |-> EmptyIndex, pos |-> n.pos])
deserialize(bs) == ReadMap(bs, ReadU64(bs, 1))

(***************************************************************************)
(* The inputs of the model: the indexes a resolver is constructed over,    *)
(* and the byte strings handed to KVAssets::init.                          *)
(***************************************************************************)
\* logical paths "b" and "bb" (index keys carry no leading '/' and are not
\* empty), storage keys "b1" and "b2"
PathB == <<98>>
PathBB == <<98, 98>>
KeyB1 == <<98, 49>>
KeyB2 == <<98, 50>>

Idx1 == insert(EmptyIndex, PathB, AssetMetadata(KeyB1, 10000, 10))
Idx2 == insert(Idx1, PathBB, AssetMetadata(KeyB2, 20000, 20))

GoodBlobs ==
    {serialize(i, o) : i \in {EmptyIndex}, o \in Orders(DOMAIN EmptyIndex)}
    \cup {serialize(Idx1, o) : o \in Orders(DOMAIN Idx1)}
    \cup {serialize(Idx2, o) : o \in Orders(DOMAIN Idx2)}
    \cup {serialize(Idx1, <<PathB>>) \o <<7>>}

\* truncated artifacts, and one whose key is not UTF-8
BadBlobs ==
    LET g == serialize(Idx1, <<PathB>>) IN
    {SubSeq(g, 1, n) : n \in {0, 7, 8, Len(g) - 1}}
    \cup {[g EXCEPT ![17] = 255]}

IndexBlobs == GoodBlobs \cup BadBlobs

(***************************************************************************)
(* The remote store: storage key -> blob (0: the key is absent).           *)
(***************************************************************************)
RemoteKeys == {KeyB1, KeyB2}
Blobs == {1, 2}

VARIABLES
    index_bytes,  \* KVAssets.index: the raw artifact bytes
    map,          \* KVAssets.map: the RefCell's content, None or Some(index)
    borrow,       \* the RefCell's borrow flag: 0 unused, n > 0 readers, -1 writer
    panicked,     \* a panic unwound the executor
    tasks,        \* the interleaved lookup_key / get_asset executions
    remote,       \* the Workers KV namespace
    kv,           \* a direct get_kv_value / put_kv_value call in flight
    last,         \* the call that completed last: op, argument, result, requests
    files,        \* the asset directory: logical path -> stat of the file
    artifact,     \* the file at output_path: None, or Some(bytes)
    run           \* the sync_assets run: position, arguments, locals, result

resolver_vars == <<index_bytes, map, borrow, panicked, tasks, remote, kv, last>>
build_vars == <<files, artifact, run>>
vars == <<resolver_vars, build_vars>>

Tasks == 1..NumTasks

Idle == [pc |-> "idle", path |-> <<>>, key |-> <<>>]
KvIdle == [pc |-> "idle", arg |-> <<>>, req |-> None]

Request(method, key, query, body) ==
    [method |-> method, key |-> key, query |-> query, body |-> body]

Completed(op, arg, res, reqs) ==
    [op |-> op, arg |-> arg, res |-> res, reqs |-> reqs]

(***************************************************************************)
(* KVAssets: ensure_map, lookup_key.  Each returns the result together     *)
(* with the cell's content and borrow flag after the call.                 *)
(***************************************************************************)
Outcome(res, m, b, panic) == [res |-> res, map |-> m, borrow |-> b, panic |-> panic]

\* dropping a Ref<'_, _> gives the shared borrow back
DropRefLeaked(b) == b
DropRef(b) == b - 1

\* dropping a RefMut<'_, _> gives the exclusive borrow back
DropRefMut(b) == b + 1

\* path.strip_prefix('/').unwrap_or(path): one leading '/' is removed
strip_prefix_all(path) ==
    LET RECURSIVE trim(_)
        trim(p) == IF p # <<>> /\ Head(p) = Slash THEN trim(Tail(p)) ELSE p
    IN trim(path)
strip_prefix(path) ==
    IF path # <<>> /\ Head(path) = Slash THEN Tail(path) ELSE path

\* path.is_empty()
is_empty_never(path) == FALSE
is_empty(path) == path = <<>>

\* ensure_map with the decode error swallowed into an empty index
\* *map = Some(bincode::deserialize(self.index).map_err(..)?), the RefMut
\* being dropped on both ways out
Populate(d, m) ==
    IF d.ok THEN Outcome(Ok(Unit), Some(d.val), DropRefMut(-1), FALSE)
    ELSE Outcome(d, m, DropRefMut(-1), FALSE)

\* ensure_map with the decode error swallowed into an empty index
ensure_map_or_default(bytes, m, b) ==
    IF b # 0 THEN Outcome(Ok(Unit), m, b, TRUE)
    ELSE IF m = None
         THEN Populate(Ok(IF deserialize(bytes).ok THEN deserialize(bytes).val
                                                   ELSE EmptyIndex), m)
         ELSE Outcome(Ok(Unit), m, DropRefMut(-1), FALSE)
\* ensure_map decoding the bytes on every call, the cache populated or not
ensure_map_redecode(bytes, m, b) ==
    IF b # 0 THEN Outcome(Ok(Unit), m, b, TRUE)
    ELSE Populate(deserialize(bytes), m)
ensure_map(bytes, m, b) ==
    \* borrow_mut() panics unless the cell is unused
    IF b # 0 THEN Outcome(Ok(Unit), m, b, TRUE)
    ELSE IF m = None THEN Populate(deserialize(bytes), m)
    ELSE Outcome(Ok(Unit), m, DropRefMut(-1), FALSE)

\* lookup_key after ensure_map()?: borrow() (a panic while a writer holds the
\* cell), as_ref().unwrap() (a panic on None), get(path).cloned()
Lookup(e, p) ==
    IF e.panic \/ ~e.res.ok THEN e
    ELSE IF e.borrow < 0 \/ e.map = None THEN Outcome(Ok(Unit), e.map, e.borrow, TRUE)
    ELSE Outcome(Ok(get(e.map[2], p)), e.map, DropRef(e.borrow + 1), FALSE)

lookup_key(bytes, path, m, b) ==
    IF is_empty(strip_prefix(path)) THEN Outcome(Err(EmptyKey), m, b, FALSE)
    ELSE Lookup(ensure_map(bytes, m, b), strip_prefix(path))

(***************************************************************************)
(* KV::get_kv_value: the request, and the result made of the response.     *)
(***************************************************************************)
is_success(status) == status \in 200..299

Stored(key) == IF key \in DOMAIN remote THEN remote[key] ELSE 0

\* what the transport and the store can answer to a GET of key
GetResponses(key) ==
    {[send |-> FALSE, status |-> 0, body |-> None],
     [send |-> TRUE, status |-> 500, body |-> None]}
    \cup (IF Stored(key) = 0
          THEN {[send |-> TRUE, status |-> 404, body |-> None]}
          ELSE {[send |-> TRUE, status |-> 200, body |-> Some(Stored(key))],
                [send |-> TRUE, status |-> 200, body |-> None]})

get_kv_value(key, resp) ==
    IF ~resp.send THEN Err(KVHttp)
    ELSE IF ~is_success(resp.status) THEN Err(KVKeyNotFound(key, resp.status))
    ELSE IF resp.body = None THEN Err(KVHttp)
    ELSE Ok(resp.body[2])

\* the key get_asset fetches: the metadata's path, not the lookup path
FetchKeyLookupPath(path, md) == strip_prefix(path)
FetchKey(path, md) == md.path

(***************************************************************************)
(* KV::put_kv_value: the TTL floor, the request, the result.               *)
(***************************************************************************)
\* "TTL must be at least 60"
TTL_MIN == 60
\* largest TTL a caller of the model passes
MaxTTL == 61

TTLs == {None} \cup {Some(n) : n \in {0, 1} \cup ((TTL_MIN - 1)..MaxTTL)}

\* if ttl < 60 { return Err(Error::TTLTooShort) }
ttl_too_short_le(ttl) == ttl <= TTL_MIN
ttl_too_short(ttl) == ttl < TTL_MIN

\* the URL's query: "?expiration_ttl={ttl}" or ""
put_query(ttl) == IF ttl = None THEN <<>> ELSE <<"expiration_ttl", ttl[2]>>

\* put_kv_value up to client.put(&url)...send(): the request, or the error
\* returned while the URL is formatted
put_request(key, val, ttl) ==
    IF ttl # None /\ ttl_too_short(ttl[2]) THEN Err(TTLTooShort)
    ELSE Ok(Request("PUT", key, put_query(ttl), val))

\* what the transport and the API can answer to a PUT; body: None when it
\* cannot be read, "text" when it is no WriteKVResponse, else resp.success
PutResponses ==
    {[send |-> FALSE, status |-> 0, body |-> None],
     [send |-> TRUE, status |-> 403, body |-> Some("text")],
     [send |-> TRUE, status |-> 200, body |-> None],
     [send |-> TRUE, status |-> 200, body |-> Some("text")],
     [send |-> TRUE, status |-> 200, body |-> Some("false")],
     [send |-> TRUE, status |-> 200, body |-> Some("true")]}

put_kv_value(resp) ==
    IF ~resp.send THEN Err(KVHttp)
    ELSE IF resp.body = None THEN Err(KVHttp)
    ELSE IF ~is_success(resp.status) THEN Err(KVHttpStatus(resp.status))
    ELSE IF resp.body[2] = "text" THEN Err(KVHttp)
    ELSE IF resp.body[2] = "true" THEN Ok(Unit)
    ELSE Err(Message)

(***************************************************************************)
(* The build side: the asset directory, make_index, write_index.           *)
(***************************************************************************)
\* latest modification time (seconds since the epoch)
MaxMTime == 2
\* the file lengths
Sizes == {10, 20}

\* the files of the asset directory: "a" and "b"
PathA == <<97>>
LPaths == {PathA, PathB}
\* the storage key wrangler assigns to a logical path
StorageKey(l) == l \o <<49>>
\* a key of the namespace no file of the directory refers to
StaleKey == <<122, 57>>

\* std::fs::metadata(asset_dir/l): None when the stat fails, else the file's
\* length and md.modified(): None when the platform reports no modification
\* time, else the time in seconds relative to the epoch (negative: before)
Good(size, mtime) == Some([size |-> size, mtime |-> Some(mtime)])
Stats ==
    {None}
    \cup {Some([size |-> sz, mtime |-> None]) : sz \in Sizes}
    \cup {Good(sz, t) : sz \in Sizes, t \in {-1} \cup 1..MaxMTime}

\* what a make_index call ends with: a panic, or a returned Result
Returned(res) == [panic |-> FALSE, res |-> res]
Panics(msg) == [panic |-> TRUE, res |-> Err(<<"panic", msg>>)]

\* make_index with an entry whose stat fails skipped
RECURSIVE make_index_skip_missing(_, _, _)
make_index_skip_missing(entries, dir, index) ==
    IF entries = <<>> THEN Returned(Ok(index))
    ELSE LET k == Head(entries)[1]
             v == Head(entries)[2]
             md == dir[k]
         IN IF md = None THEN make_index_skip_missing(Tail(entries), dir, index)
            ELSE IF md[2].mtime = None THEN Panics("Can't read modified time")
            ELSE IF md[2].mtime[2] < 0 THEN Panics("Invalid timestamp")
            ELSE make_index_skip_missing(Tail(entries), dir,
                     insert(index, k, AssetMetadata(v, md[2].mtime[2], md[2].size)))

\* make_index(asset_dir, asset_manifest): entries are the manifest's
\* (logical path, storage key) pairs in the order into_iter() yields them
RECURSIVE make_index(_, _, _)
make_index(entries, dir, index) ==
    IF entries = <<>> THEN Returned(Ok(index))
    ELSE LET k == Head(entries)[1]
             v == Head(entries)[2]
             md == dir[k]
         IN IF md = None THEN Returned(Err(IO("failed reading asset file")))
            ELSE IF md[2].mtime = None THEN Panics("Can't read modified time")
            ELSE IF md[2].mtime[2] < 0 THEN Panics("Invalid timestamp")
            ELSE make_index(Tail(entries), dir,
                     insert(index, k, AssetMetadata(v, md[2].mtime[2], md[2].size)))

\* write_index: the Update computed from std::fs::read(output_path)
update_of(existing, bytes) ==
    IF existing = None THEN "New"
    ELSE IF bytes = existing[2] THEN "NoChange" ELSE "Updated"

\* write_index: Update::New | Update::Updated => std::fs::write(..)
writes_only_new(update) == update = "New"
writes(update) == update \in {"New", "Updated"}

\* a sync_assets run.  pc: where the run stands; prune: args.prune;
\* manifest, to_delete: returned by wrangler::sites::sync; index: returned by
\* make_index; update: the Update of write_index; wrote: std::fs::write was
\* called; uploaded, deleted: bulk::put, bulk::delete returned Ok; res: what
\* sync_assets returned (or the panic that ended it)
NoRun ==
    [pc |-> "idle", prune |-> FALSE, manifest |-> <<>>, to_delete |-> <<>>,
     index |-> None, update |-> "none", wrote |-> FALSE,
     uploaded |-> FALSE, deleted |-> FALSE, res |-> None]

\* sync_assets returns (or unwinds): its arguments and locals are dropped
Ended(r, pc, res) ==
    [r EXCEPT !.pc = pc, !.res = Some(res), !.prune = FALSE, !.manifest = <<>>,
              !.to_delete = <<>>, !.index = None]

(***************************************************************************)
(* Init and the resolver's actions.                                        *)
(***************************************************************************)
Init ==
    /\ index_bytes \in IndexBlobs
    /\ map = None
    /\ borrow = 0
    /\ panicked = FALSE
    /\ tasks = [t \in Tasks |-> Idle]
    /\ remote = [k \in RemoteKeys |-> IF k = KeyB1 THEN 1 ELSE 2]
    /\ kv = KvIdle
    /\ last = Completed("none", <<>>, Ok(Unit), <<>>)
    /\ files = [l \in LPaths |-> Good(10, 1)]
    /\ artifact = None
    /\ run = NoRun

\* lookup_key(path), start to return
LookupKey(t, path) ==
    /\ ~panicked
    /\ tasks[t].pc = "idle"
    /\ LET r == lookup_key(index_bytes, path, map, borrow) IN
       /\ map' = r.map
       /\ borrow' = r.borrow
       /\ panicked' = r.panic
       /\ last' = IF r.panic THEN last
                  ELSE Completed("lookup_key", path, r.res, <<>>)
    /\ UNCHANGED <<index_bytes, tasks, remote, kv, build_vars>>

\* get_asset(path) up to the await of the remote fetch, or up to its return
\* when lookup_key gives no metadata
GetAssetStart(t, path) ==
    /\ ~panicked
    /\ tasks[t].pc = "idle"
    /\ LET r == lookup_key(index_bytes, path, map, borrow) IN
       /\ map' = r.map
       /\ borrow' = r.borrow
       /\ panicked' = r.panic
       /\ IF ~r.panic /\ r.res.ok /\ r.res.val # None
          THEN /\ tasks' = [tasks EXCEPT ![t] =
                      [pc |-> "fetch", path |-> path,
                       key |-> FetchKey(path, r.res.val[2])]]
               /\ last' = last
          ELSE /\ tasks' = tasks
               /\ last' = IF r.panic THEN last
                          ELSE Completed("get_asset", path, r.res, <<>>)
    /\ UNCHANGED <<index_bytes, remote, kv, build_vars>>

\* get_asset resumed with the response of the remote fetch
GetAssetFinish(t) ==
    /\ ~panicked
    /\ tasks[t].pc = "fetch"
    /\ \E resp \in GetResponses(tasks[t].key) :
          LET r == get_kv_value(tasks[t].key, resp) IN
          last' = Completed("get_asset", tasks[t].path,
                            IF r.ok THEN Ok(Some(r.val)) ELSE r,
                            <<Request("GET", tasks[t].key, <<>>, 0)>>)
    /\ tasks' = [tasks EXCEPT ![t] = Idle]
    /\ UNCHANGED <<index_bytes, map, borrow, panicked, remote, kv, build_vars>>

\* the store drops a key (TTL expiry, or a delete by another client)
Evict(key) ==
    /\ remote[key] # 0
    /\ remote' = [remote EXCEPT ![key] = 0]
    /\ UNCHANGED <<index_bytes, map, borrow, panicked, tasks, kv, last, build_vars>>

(***************************************************************************)
(* Direct calls of get_kv_value and put_kv_value (on KVAssets or on KV).   *)
(***************************************************************************)
GetKvStart(key) ==
    /\ ~panicked
    /\ kv.pc = "idle"
    /\ kv' = [pc |-> "get", arg |-> key, req |-> Some(Request("GET", key, <<>>, 0))]
    /\ UNCHANGED <<index_bytes, map, borrow, panicked, tasks, remote, last, build_vars>>

GetKvFinish ==
    /\ ~panicked
    /\ kv.pc = "get"
    /\ \E resp \in GetResponses(kv.arg) :
          last' = Completed("get_kv_value", kv.arg, get_kv_value(kv.arg, resp),
                            <<kv.req[2]>>)
    /\ kv' = KvIdle
    /\ UNCHANGED <<index_bytes, map, borrow, panicked, tasks, remote, build_vars>>

\* put_kv_value(key, val, ttl) up to the await of send(), or up to its
\* return when the TTL is refused
PutStart(key, val, ttl) ==
    /\ ~panicked
    /\ kv.pc = "idle"
    /\ LET a == [key |-> key, val |-> val, ttl |-> ttl]
           r == put_request(key, val, ttl) IN
       IF r.ok
       THEN /\ kv' = [pc |-> "put", arg |-> a, req |-> Some(r.val)]
            /\ last' = last
       ELSE /\ kv' = kv
            /\ last' = Completed("put_kv_value", a, r, <<>>)
    /\ UNCHANGED <<index_bytes, map, borrow, panicked, tasks, remote, build_vars>>

\* put_kv_value resumed with the response; the store holds the value once
\* the API has answered with a success status
PutFinish(resp) ==
    /\ ~panicked
    /\ kv.pc = "put"
    /\ resp \in PutResponses
    /\ last' = Completed("put_kv_value", kv.arg, put_kv_value(resp), <<kv.req[2]>>)
    /\ remote' = IF resp.send /\ is_success(resp.status) /\ resp.body # Some("false")
                    /\ kv.arg.key \in DOMAIN remote
                 THEN [remote EXCEPT ![kv.arg.key] = kv.arg.val]
                 ELSE remote
    /\ kv' = KvIdle
    /\ UNCHANGED <<index_bytes, map, borrow, panicked, tasks, build_vars>>

NextKV ==
    \/ \E key \in RemoteKeys : GetKvStart(key)
    \/ GetKvFinish
    \/ \E key \in RemoteKeys, val \in Blobs, ttl \in TTLs : PutStart(key, val, ttl)
    \/ \E resp \in PutResponses : PutFinish(resp)
    \/ \E key \in RemoteKeys : Evict(key)

SpecKV == Init /\ [][NextKV]_vars

(***************************************************************************)
(* sync_assets, step by step, and the changes other processes make to the  *)
(* asset directory.                                                        *)
(***************************************************************************)
\* another process writes or touches a file.  The run reads the directory
\* at the scan and in make_index only, so changes are taken between runs
\* and between the scan and make_index
WriteFile(l, st) ==
    /\ run.pc \in {"idle", "scanned"}
    /\ st # None /\ st # files[l]
    /\ files' = [files EXCEPT ![l] = st]
    /\ UNCHANGED <<resolver_vars, artifact, run>>

\* another process removes a file
RemoveFile(l) ==
    /\ run.pc \in {"idle", "scanned"}
    /\ files[l] # None
    /\ files' = [files EXCEPT ![l] = None]
    /\ UNCHANGED <<resolver_vars, artifact, run>>

\* sync_assets up to wrangler::sites::sync: the manifest lists the files of
\* the directory, in the order its HashMap will be iterated
Scan(prune, order, stale) ==
    /\ run.pc = "idle"
    /\ order \in Orders({l \in LPaths : files[l] # None})
    /\ run' = [NoRun EXCEPT !.pc = "scanned", !.prune = prune,
                            !.manifest = [i \in DOMAIN order |->
                                            <<order[i], StorageKey(order[i])>>],
                            !.to_delete = stale]
    /\ UNCHANGED <<resolver_vars, files, artifact>>

\* sync_assets fails before make_index: the parameter checks, the manifest,
\* the namespace or the scan
ScanFails(e) ==
    /\ run.pc = "idle"
    /\ run' = Ended(NoRun, "failed", Err(e))
    /\ UNCHANGED <<resolver_vars, files, artifact>>

\* let index = make_index(&args.asset_dir, asset_manifest)?;
MakeIndex ==
    /\ run.pc = "scanned"
    /\ LET r == make_index(run.manifest, files, EmptyIndex) IN
       run' = IF r.panic THEN Ended(run, "panicked", r.res)
              ELSE IF r.res.ok THEN [run EXCEPT !.pc = "indexed", !.index = Some(r.res.val)]
              ELSE Ended(run, "failed", r.res)
    /\ UNCHANGED <<resolver_vars, files, artifact>>

\* write_index(&args, index)?; the HashMap is serialized in `order`; a
\* failed std::fs::write leaves the old file or an empty one
WriteIndex(order, write_ok, left) ==
    /\ run.pc = "indexed"
    /\ order \in Orders(DOMAIN run.index[2])
    /\ LET bytes == serialize(run.index[2], order)
           update == update_of(artifact, bytes)
       IN IF writes(update)
          THEN IF write_ok
               THEN /\ artifact' = Some(bytes)
                    /\ run' = [run EXCEPT !.pc = "written", !.update = update,
                                          !.wrote = TRUE]
               ELSE /\ artifact' = left
                    /\ left \in {artifact, Some(<<>>)}
                    /\ run' = Ended([run EXCEPT !.update = update, !.wrote = TRUE],
                                    "failed", Err(IO("writing")))
          ELSE /\ write_ok /\ left = artifact
               /\ artifact' = artifact
               /\ run' = [run EXCEPT !.pc = "written", !.update = update]
    /\ UNCHANGED <<resolver_vars, files>>

\* bulk::put with its error dropped: the run goes on to the stale files
BulkPutContinues(ok) ==
    /\ run.pc = "written"
    /\ run' = [run EXCEPT !.pc = "uploaded", !.uploaded = ok]
    /\ UNCHANGED <<resolver_vars, files, artifact>>

\* bulk::put(.., to_upload, ..)?
BulkPut(ok) ==
    /\ run.pc = "written"
    /\ run' = IF ok THEN [run EXCEPT !.pc = "uploaded", !.uploaded = TRUE]
              ELSE Ended(run, "failed", Err(Wrangler))
    /\ UNCHANGED <<resolver_vars, files, artifact>>

\* the stale files: bulk::delete(.., to_delete, ..)? when there are any and
\* args.prune is set; then Ok(())
Prune(ok) ==
    /\ run.pc = "uploaded"
    /\ run' = IF run.to_delete # <<>> /\ run.prune
              THEN IF ok THEN Ended([run EXCEPT !.deleted = TRUE], "done", Ok(Unit))
                   ELSE Ended(run, "failed", Err(Wrangler))
              ELSE Ended(run, "done", Ok(Unit))
    /\ ok \/ (run.to_delete # <<>> /\ run.prune)
    /\ UNCHANGED <<resolver_vars, files, artifact>>

\* the process has ended; kv-sync is run again
Rerun ==
    /\ run.pc \in {"done", "failed", "panicked"}
    /\ run' = NoRun
    /\ UNCHANGED <<resolver_vars, files, artifact>>

NextBuild ==
    \/ \E l \in LPaths, st \in Stats : WriteFile(l, st)
    \/ \E l \in LPaths : RemoveFile(l)
    \/ \E prune \in BOOLEAN, stale \in {<<>>, <<StaleKey>>} :
          \E order \in Orders({l \in LPaths : files[l] # None}) :
             Scan(prune, order, stale)
    \/ \E e \in {<<"InvalidAssetPath">>, <<"MissingWranglerFile">>, Wrangler} :
          ScanFails(e)
    \/ MakeIndex
    \/ \E write_ok \in BOOLEAN, left \in {artifact, Some(<<>>)} :
          \E order \in Orders(IF run.index = None THEN {} ELSE DOMAIN run.index[2]) :
             WriteIndex(order, write_ok, left)
    \/ \E ok \in BOOLEAN : BulkPut(ok)
    \/ \E ok \in BOOLEAN : Prune(ok)
    \/ Rerun

\* the build runs on the developer's machine, apart from any resolver
InitBuild == Init /\ index_bytes = serialize(EmptyIndex, <<>>)

SpecBuild == InitBuild /\ [][NextBuild]_vars

Next ==
    \/ \E t \in Tasks, path \in Paths : LookupKey(t, path)
    \/ \E t \in Tasks, path \in Paths : GetAssetStart(t, path)
    \/ \E t \in Tasks : GetAssetFinish(t)
    \/ \E key \in RemoteKeys : Evict(key)

Spec == Init /\ [][Next]_vars

\* one resolver used through all four of its operations: lookup_key and
\* get_asset executions, and direct get_kv_value / put_kv_value calls.  The
\* artifacts are a two-entry index and a truncated one; the paths are "/"
\* (refused as empty), "b" and "/bb" (indexed) and "//" (not indexed)
ResolverBlobs ==
    LET g == serialize(Idx2, <<PathB, PathBB>>) IN {g, SubSeq(g, 1, Len(g) - 1)}
ResolverPaths == {<<Slash>>, PathB, <<Slash>> \o PathBB, <<Slash, Slash>>}

NextResolver ==
    \/ \E t \in Tasks, path \in ResolverPaths : LookupKey(t, path)
    \/ \E t \in Tasks, path \in ResolverPaths : GetAssetStart(t, path)
    \/ \E t \in Tasks : GetAssetFinish(t)
    \/ \E key \in RemoteKeys : GetKvStart(key)
    \/ GetKvFinish
    \/ \E ttl \in {None, Some(TTL_MIN - 1)} : PutStart(KeyB1, 2, ttl)
    \/ \E resp \in PutResponses : PutFinish(resp)
    \/ \E key \in RemoteKeys : Evict(key)

InitResolver == Init /\ index_bytes \in ResolverBlobs

SpecResolver == InitResolver /\ [][NextResolver]_vars

(***************************************************************************)
(* Properties of the resolver.                                             *)
(***************************************************************************)
\* what the resolver's bytes decode to
Decodes == deserialize(index_bytes).ok
Decoded == deserialize(index_bytes).val

\* a path with exactly one leading '/' removed if present
Normalized(p) == IF Len(p) > 0 /\ p[1] = Slash THEN SubSeq(p, 2, Len(p)) ELSE p

Indexed(p) == Decodes /\ Normalized(p) # <<>> /\ Normalized(p) \in DOMAIN Decoded

\* C1: get_asset returns Ok(None) only when the path's lookup gives Ok(None),
\* and then no request was made; when the lookup gives Some(md) it fetches
\* the storage key md.path (not the lookup path) and returns the bytes the
\* store answered with; a store that reports the key as not found gives the
\* KVKeyNotFound error, never Ok(None).
C1_Fetching ==
    \A t \in Tasks : tasks[t].pc = "fetch" =>
        /\ Indexed(tasks[t].path)
        /\ tasks[t].key = Decoded[Normalized(tasks[t].path)].path
C1_Returned ==
    last.op = "get_asset" =>
        /\ last.res = Ok(None) =>
              /\ last.reqs = <<>>
              /\ Decodes /\ Normalized(last.arg) # <<>> /\ ~Indexed(last.arg)
        /\ last.reqs # <<>> =>
              /\ Indexed(last.arg)
              /\ last.reqs = <<Request("GET", Decoded[Normalized(last.arg)].path, <<>>, 0)>>
              /\ last.res # Ok(None)
C1_Step ==
    \A t \in Tasks :
        /\ \A p \in Paths : GetAssetStart(t, p) =>
              /\ Indexed(p) => tasks'[t].pc = "fetch" /\ last' = last
              /\ (Decodes /\ Normalized(p) # <<>> /\ ~Indexed(p)) =>
                    last' = Completed("get_asset", p, Ok(None), <<>>) /\ tasks' = tasks
        /\ GetAssetFinish(t) =>
              LET k == tasks[t].key IN
              /\ last'.res.ok => Stored(k) # 0 /\ last'.res = Ok(Some(Stored(k)))
              /\ Stored(k) = 0 =>
                    last'.res \in {Err(KVKeyNotFound(k, 404)),
                                   Err(KVKeyNotFound(k, 500)), Err(KVHttp)}
C1_GetAsset == [](C1_Fetching /\ C1_Returned) /\ [][C1_Step]_vars

\* C1 witness: "bb" is indexed under storage key "b2", the store no longer
\* holds "b2", and get_asset("/bb") returned KVKeyNotFound for "b2"
C1_Witness ==
    /\ last = Completed("get_asset", <<Slash>> \o PathBB,
                        Err(KVKeyNotFound(KeyB2, 404)),
                        <<Request("GET", KeyB2, <<>>, 0)>>)
    /\ remote[KeyB2] = 0

\* C2: when the bytes decode and the normalized path n is not empty,
\* lookup_key returns Ok(Some(entry under n)) if n is a key and Ok(None)
\* otherwise, never an error; so "/" + k and k give the same answer for
\* every indexed key k, and a path with two leading slashes is looked up
\* under a key that still starts with a slash.
C2_Returned ==
    (last.op = "lookup_key" /\ Decodes /\ Normalized(last.arg) # <<>>) =>
        LET n == Normalized(last.arg) IN
        /\ last.res = Ok(IF n \in DOMAIN Decoded THEN Some(Decoded[n]) ELSE None)
        /\ (Len(last.arg) >= 2 /\ last.arg[1] = Slash /\ last.arg[2] = Slash) =>
              n[1] = Slash /\ last.res = Ok(None)
C2_SlashOrNot ==
    Decodes =>
        \A k \in DOMAIN Decoded :
            /\ lookup_key(index_bytes, <<Slash>> \o k, map, borrow).res = Ok(Some(Decoded[k]))
            /\ lookup_key(index_bytes, k, map, borrow).res = Ok(Some(Decoded[k]))
C2_Lookup == C2_Returned /\ C2_SlashOrNot

\* C2 witness: "b" is indexed and lookup_key("//b") returned Ok(None)
C2_Witness ==
    /\ Decodes /\ PathB \in DOMAIN Decoded
    /\ last = Completed("lookup_key", <<Slash, Slash>> \o PathB, Ok(None), <<>>)

\* C3: lookup_key("") and lookup_key("/") fail with EmptyKey in every
\* resolver state, valid bytes or not, before any decode attempt: the cache
\* is left as it was, and get_asset on such a path returns the same error
\* without a remote fetch.
C3_Step ==
    \A t \in Tasks : \A p \in {<<>>, <<Slash>>} :
        /\ LookupKey(t, p) =>
              /\ last' = Completed("lookup_key", p, Err(EmptyKey), <<>>)
              /\ map' = map /\ borrow' = borrow /\ ~panicked'
        /\ GetAssetStart(t, p) =>
              /\ last' = Completed("get_asset", p, Err(EmptyKey), <<>>)
              /\ map' = map /\ borrow' = borrow /\ ~panicked'
              /\ tasks' = tasks
C3_EmptyKey == [][C3_Step]_vars

\* C3 witness: get_asset("/") returned EmptyKey on a resolver over bytes
\* that do not decode, the cache still empty
C3_Witness ==
    /\ last = Completed("get_asset", <<Slash>>, Err(EmptyKey), <<>>)
    /\ ~Decodes /\ map = None

\* C4: over bytes that do not decode, every lookup_key or get_asset with a
\* non-empty normalized path returns DeserializeAssets, never Ok(None); the
\* cache stays empty, no fetch is started, and nothing panics, on the first
\* call and on every later one.
C4_DecodeError ==
    ~Decodes =>
        /\ map = None /\ borrow = 0 /\ ~panicked
        /\ \A t \in Tasks : tasks[t].pc = "idle"
        /\ (last.op \in {"lookup_key", "get_asset"} /\ Normalized(last.arg) # <<>>) =>
              last.res = Err(DeserializeAssets) /\ last.reqs = <<>>
        /\ \A p \in Paths : Normalized(p) # <<>> =>
              LET r == lookup_key(index_bytes, p, map, borrow) IN
              r.res = Err(DeserializeAssets) /\ r.map = None /\ ~r.panic

\* C4 witness: a get_asset on a resolver over truncated bytes returned
\* DeserializeAssets
C4_Witness ==
    /\ ~Decodes /\ index_bytes # <<>> /\ map = None
    /\ last = Completed("get_asset", PathB, Err(DeserializeAssets), <<>>)

\* C7: whatever the interleaving of lookup_key / get_asset executions on one
\* resolver, no execution panics on the RefCell, no borrow of the cache is
\* held while an execution is suspended at its remote fetch (or between
\* calls), and the cache, once populated, is the decode of the bytes.
C7_LazyDecodeSafe ==
    /\ ~panicked
    /\ borrow = 0
    /\ map # None => Decodes /\ map = Some(Decoded)

\* C7 witness: two get_asset executions on different paths are suspended at
\* their fetch at once (the second ran its lookup while the first was
\* suspended), over the populated cache
C7_Witness ==
    /\ tasks[1].pc = "fetch" /\ tasks[2].pc = "fetch" /\ tasks[1].path # tasks[2].path
    /\ map = Some(Decoded)

\* an operation returns in this step
Returns == last'.op # last.op \/ last' # last

\* a lookup_key or get_asset call that passed the empty-key check runs in
\* this step: it returns here, or it suspends here at its fetch
PassedEmptyCheck ==
    \/ /\ Returns /\ last'.op \in {"lookup_key", "get_asset"}
       /\ last'.reqs = <<>> /\ Normalized(last'.arg) # <<>>
    \/ \E t \in Tasks : /\ tasks[t].pc = "idle" /\ tasks'[t].pc = "fetch"
                         /\ Normalized(tasks'[t].path) # <<>>

\* with the cache populated, no lookup reads the raw bytes: whatever the
\* bytes were, its outcome is the same
C11_NoRedecode ==
    map # None =>
        \A bs \in IndexBlobs, p \in ResolverPaths :
            lookup_key(bs, p, map, borrow) = lookup_key(index_bytes, p, map, borrow)

C11_Step ==
    /\ index_bytes' = index_bytes
    /\ map # None => map' = map
    /\ (map = None /\ map' # None) =>
          /\ map' = Some(Decoded)
          /\ kv' = kv /\ remote' = remote
          /\ PassedEmptyCheck
    /\ (map = None /\ Returns /\ last'.op \in {"lookup_key", "get_asset"}
          /\ Normalized(last'.arg) = <<>>) => map' = None
    /\ (map # None /\ Returns /\ last'.op = "lookup_key") =>
          last'.res = IF Normalized(last'.arg) = <<>> THEN Err(EmptyKey)
                      ELSE Ok(get(map[2], Normalized(last'.arg)))

\* C11: the decoded-index cache is empty at construction; it is populated
\* only by a lookup_key / get_asset call that passed the empty-key check, with
\* the decode of the raw bytes; whatever resolver operations follow
\* (lookup_key, get_asset, get_kv_value, put_kv_value), a populated cache is
\* not decoded again, replaced or modified, the raw bytes never change, and
\* every later lookup answers from that same decoded index.
C11_SingleLazyInit == map = None /\ []C11_NoRedecode /\ [][C11_Step]_vars

\* C11 witness: the cache is populated, a put_kv_value has since stored its
\* value under "b1", a get_asset is suspended at its fetch, and the last
\* lookup_key("b") answered from the cached index
C11_Witness ==
    /\ map = Some(Idx2)
    /\ remote[KeyB1] = 2
    /\ \E t \in Tasks : tasks[t].pc = "fetch"
    /\ last.op = "lookup_key"
    /\ last = Completed("lookup_key", PathB, Ok(get(Idx2, PathB)), <<>>)

(***************************************************************************)
(* Properties of the KV client.                                            *)
(***************************************************************************)
\* C10: put with a TTL below 60 fails with TTLTooShort and issues no
\* request, for every key and value; put with a TTL of 60 or more, or with
\* none, issues the PUT, whose query carries expiration_ttl exactly when a
\* TTL was given.
C10_Expected(a) ==
    Request("PUT", a.key, IF a.ttl = None THEN <<>> ELSE <<"expiration_ttl", a.ttl[2]>>,
            a.val)
C10_TTLFloor ==
    /\ kv.pc = "put" =>
          /\ kv.arg.ttl # None => kv.arg.ttl[2] >= 60
          /\ kv.req = Some(C10_Expected(kv.arg))
    /\ last.op = "put_kv_value" =>
          IF last.arg.ttl # None /\ last.arg.ttl[2] < 60
          THEN last.res = Err(TTLTooShort) /\ last.reqs = <<>>
          ELSE last.res # Err(TTLTooShort) /\ last.reqs = <<C10_Expected(last.arg)>>
C10_Step ==
    \A key \in RemoteKeys, val \in Blobs, ttl \in TTLs :
        PutStart(key, val, ttl) =>
            IF ttl # None /\ ttl[2] < 60
            THEN /\ kv' = kv /\ remote' = remote
                 /\ last' = Completed("put_kv_value", [key |-> key, val |-> val, ttl |-> ttl],
                                      Err(TTLTooShort), <<>>)
            ELSE kv'.pc = "put" /\ last' = last
C10_Put == []C10_TTLFloor /\ [][C10_Step]_vars

\* C10 witness: a put with TTL 59 was refused without a request, and a put
\* with TTL 60 is in flight
C10_Witness ==
    /\ last.op = "put_kv_value" /\ last.arg.ttl = Some(59)
    /\ last.res = Err(TTLTooShort) /\ last.reqs = <<>>
    /\ kv.pc = "put" /\ kv.arg.ttl = Some(60)
    /\ kv.req = Some(Request("PUT", kv.arg.key, <<"expiration_ttl", 60>>, kv.arg.val))

(***************************************************************************)
(* Properties of the build.                                                *)
(***************************************************************************)
\* a write_index call that returns Ok
WriteIndexStep == run.pc = "indexed" /\ run'.pc = "written"

\* the artifact is what an earlier build wrote for index ix
HoldsIndex(a, ix) == a # None /\ deserialize(a[2]) = Ok(ix)

\* index ix differs from index iy in the size or mtime of exactly one entry
OneFileChanged(ix, iy) ==
    /\ DOMAIN ix = DOMAIN iy
    /\ Cardinality({k \in DOMAIN ix : ix[k] # iy[k]}) = 1
    /\ \A k \in DOMAIN ix : ix[k].path = iy[k].path

\* C5: a build whose inputs (pairs, sizes, mtimes) are those of the build
\* that wrote the artifact ends with NoChange and leaves the artifact as it
\* is, for an index of any number of entries; a build after the size or
\* mtime of one indexed file changed ends with Updated.
C5_Step ==
    WriteIndexStep =>
        /\ HoldsIndex(artifact, run.index[2]) =>
              run'.update = "NoChange" /\ ~run'.wrote /\ artifact' = artifact
        /\ (artifact # None /\ deserialize(artifact[2]).ok
              /\ OneFileChanged(deserialize(artifact[2]).val, run.index[2])) =>
              run'.update = "Updated"
C5_SecondBuildNoChange == [][C5_Step]_vars

\* C6: write_index ends with exactly one of New (no artifact file), NoChange
\* (the file's bytes are the new bytes) and Updated (they differ); it calls
\* std::fs::write exactly for New and Updated; and when it returns Ok the
\* artifact holds the serialization of the new index.
C6_Step ==
    \A write_ok \in BOOLEAN, left \in {artifact, Some(<<>>)} :
    \A order \in Orders(IF run.index = None THEN {} ELSE DOMAIN run.index[2]) :
        WriteIndex(order, write_ok, left) =>
            LET bytes == serialize(run.index[2], order) IN
            /\ run'.update \in {"New", "NoChange", "Updated"}
            /\ run'.update = "New" <=> artifact = None
            /\ run'.update = "NoChange" <=> artifact = Some(bytes)
            /\ run'.update = "Updated" <=> (artifact # None /\ artifact # Some(bytes))
            /\ run'.wrote <=> run'.update \in {"New", "Updated"}
            /\ ~run'.wrote => artifact' = artifact
            /\ run'.pc = "written" =>
                  artifact' = Some(bytes) /\ HoldsIndex(artifact', run.index[2])
C6_WriteIndex == [][C6_Step]_vars

\* C6 witness: over an artifact of two entries, write_index ended with
\* NoChange without a write
C6_Witness ==
    /\ run.pc = "written" /\ run.update = "NoChange" /\ ~run.wrote
    /\ HoldsIndex(artifact, run.index[2])
    /\ Cardinality(DOMAIN run.index[2]) = 2

\* the i-th stat of make_index fails, or gives no time at or after the epoch
StatFails(i) == files[run.manifest[i][1]] = None
BadTime(i) ==
    LET md == files[run.manifest[i][1]] IN
    md # None /\ (md[2].mtime = None \/ md[2].mtime[2] < 0)
Reaches(i) == \A j \in 1..(i - 1) : ~StatFails(j) /\ ~BadTime(j)

\* C8: when the stat make_index makes for a listed (logical_path,
\* remote_key) pair fails, the build returns the error of the failed stat
\* (Error::IO "failed reading asset file ..."), the entry is not skipped, no
\* index is returned, write_index is not reached and the artifact is as it
\* was, and the run ends before any upload or delete.
C8_Untouched ==
    /\ ~run.wrote /\ run.update = "none" /\ run.index = None
    /\ ~run.uploaded /\ ~run.deleted
C8_Step ==
    /\ (run.pc = "scanned" /\ run'.pc # "scanned"
          /\ \E i \in DOMAIN run.manifest : StatFails(i) /\ Reaches(i)) =>
          /\ run'.pc = "failed"
          /\ run'.res = Some(Err(IO("failed reading asset file")))
          /\ artifact' = artifact
    /\ run.pc = "failed" => run'.pc \in {"failed", "idle"}
C8_Failed ==
    (run.pc = "failed" /\ run.res = Some(Err(IO("failed reading asset file")))) =>
        C8_Untouched
C8_MissingFile == []C8_Failed /\ [][C8_Step]_vars

\* C8 witness: a run failed on a removed file, the artifact of an earlier
\* run still in place
C8_Witness ==
    /\ run.pc = "failed" /\ run.res = Some(Err(IO("failed reading asset file")))
    /\ \E l \in LPaths : files[l] = None
    /\ artifact # None /\ artifact # Some(<<>>)

\* C9: when make_index gets no modification time, or one before the epoch,
\* for a listed file, the build returns a typed error to its caller, with no
\* index and no artifact write.
C9_Step ==
    (run.pc = "scanned" /\ run'.pc # "scanned"
       /\ \E i \in DOMAIN run.manifest : BadTime(i) /\ Reaches(i)) =>
       /\ run'.pc = "failed"
       /\ ~run'.res[2].ok
       /\ run'.index = None /\ ~run'.wrote /\ artifact' = artifact
C9_ClockErrorReturned == [][C9_Step]_vars

\* the order of the steps of a run: each step starts where the one before
\* it returned Ok, and a run that failed or panicked only ends
StepOrder ==
    {<<"idle", "scanned">>, <<"scanned", "indexed">>, <<"indexed", "written">>,
     <<"written", "uploaded">>, <<"uploaded", "done">>}
    \cup {<<pc, "failed">> : pc \in {"idle", "scanned", "indexed", "written", "uploaded"}}
    \cup {<<"scanned", "panicked">>}
    \cup {<<pc, "idle">> : pc \in {"done", "failed", "panicked"}}

\* the run is at the stale files with a delete to make
DeleteDue == run.prune /\ run.to_delete # <<>>

C12_Order ==
    /\ run.deleted => run.uploaded
    /\ run.uploaded => run.update # "none"
    /\ run.update # "none" => run.pc \notin {"idle", "scanned"}
    /\ run.index # None => run.pc \in {"indexed", "written", "uploaded"}
    /\ run.pc \in {"failed", "panicked"} => ~run.deleted
    /\ run.pc = "done" => run.uploaded /\ run.res = Some(Ok(Unit))
    /\ run.pc \in {"written", "uploaded"} => run.update # "none"
    /\ run.pc = "uploaded" => run.uploaded

C12_Step ==
    /\ run'.pc # run.pc => <<run.pc, run'.pc>> \in StepOrder
    \* each effect is made by its own step
    /\ (run.index = None /\ run'.index # None) => run.pc = "scanned"
    /\ (artifact' # artifact \/ run'.update # run.update) =>
          run.pc = "indexed" \/ run'.pc = "idle"
    /\ (~run.uploaded /\ run'.uploaded) => run.pc = "written" /\ run'.pc = "uploaded"
    /\ (~run.deleted /\ run'.deleted) =>
          run.pc = "uploaded" /\ run.uploaded /\ DeleteDue /\ run'.pc = "done"
    \* a failed step leaves the later steps' effects unmade
    /\ run'.pc \in {"failed", "panicked"} =>
          /\ run'.uploaded = run.uploaded /\ run'.deleted = run.deleted
          /\ run.pc \in {"idle", "scanned"} => artifact' = artifact /\ ~run'.wrote
    \* with prune unset, or nothing stale, the last step makes no delete: it
    \* cannot fail and returns Ok(())
    /\ (run.pc = "uploaded" /\ run'.pc # "uploaded" /\ ~DeleteDue) =>
          run'.pc = "done" /\ ~run'.deleted /\ run'.res = Some(Ok(Unit))
    \* with a delete to make, the run returns what bulk::delete returned
    /\ (run.pc = "uploaded" /\ run'.pc # "uploaded" /\ DeleteDue) =>
          \/ run'.pc = "done" /\ run'.deleted
          \/ run'.pc = "failed" /\ ~run'.deleted

====
